---- MODULE Spec2Model ----
(***************************************************************************)
(* A model of the nest REST client: the thermostat and structure setters,  *)
(* the PUT-and-retry primitives setThermostat / setStructure, SetETA and   *)
(* the Structures() collection fetch, all sharing one Client whose         *)
(* RedirectURL field they read and write.                                  *)
(*                                                                         *)
(* Strings are TLA+ strings and Go's + is \o, so a URL built on an empty   *)
(* RedirectURL really is the bare path.  A float32 is a record: a whole    *)
(* number of degrees, a NaN or an infinity, compared as Go compares them.  *)
(* The HTTP transport (net/http) and the server are the environment: each  *)
(* request gets one outcome out of Outcomes(req).                          *)
(***************************************************************************)
EXTENDS Integers, Sequences, FiniteSets, TLC

VARIABLES
    RedirectURL,   \* Client.RedirectURL, shared by every resource of the client
    pc,            \* pc[p]: where caller p stands in the call it is making
    call,          \* call[p]: the locals of the call caller p is making / made last
    panicked       \* TRUE once a nil dereference has brought the program down

vars == <<RedirectURL, pc, call, panicked>>

----------------------------------------------------------------------------
(* Bounds of the model *)

MaxMode == 8       \* mode arguments range over 0..MaxMode
MaxTime == 2       \* instants (time.Time) range over 0..MaxTime
MaxDeg == 1        \* high/low temperatures range over 0..MaxDeg (and NaN, +Inf)
MaxLines == 2      \* lines read from one stream connection
MaxAttempts == 2   \* connection attempts of one StructuresStream run

Procs == {1, 2}    \* callers sharing the client
SeqProcs == {1}    \* the callers that act in the sequential specification

----------------------------------------------------------------------------
(* Values the missing declarations of the package give *)

Cool == 1
Heat == 2
HeatCool == 3
Off == 4
Home == 5
Away == 6
AutoAway == 7
NoStream == 0
Stream == 1

APIURL == "https://api.nest"     \* Client.APIURL
Token == "tok"                   \* Client.Token
DeviceID == "t1"                 \* Thermostat.DeviceID
StructureID == "s1"              \* Structure.StructureID

----------------------------------------------------------------------------
(* float32 *)

F(n) == [k |-> "num", v |-> n]
NaN == [k |-> "nan", v |-> 0]
PosInf == [k |-> "inf", v |-> 1]
NegInf == [k |-> "inf", v |-> -1]

IsFinite(a) == a.k = "num"

\* Go's a < b on float32: false whenever an operand is NaN
FloatLess(a, b) ==
    IF a.k = "nan" \/ b.k = "nan" THEN FALSE
    ELSE IF a.k = "inf" /\ b.k = "inf" THEN a.v < b.v
    ELSE IF a.k = "inf" THEN a.v < 0
    ELSE IF b.k = "inf" THEN b.v > 0
    ELSE a.v < b.v

----------------------------------------------------------------------------
(* JSON request bodies: a set of <<key, value>> pairs; the empty set is the *)
(* empty byte slice                                                         *)

JBool(b) == [t |-> "bool", s |-> IF b THEN "true" ELSE "false", n |-> 0]
JStr(s) == [t |-> "string", s |-> s, n |-> 0]
JNum(n) == [t |-> "number", s |-> "", n |-> n]
JTime(t) == [t |-> "time", s |-> "", n |-> t]

EmptyBody == {}

\* json.Marshal of a map[string]bool / map[string]string / map[string]int
MarshalBoolMap(m) == {<<kv[1], JBool(kv[2])>> : kv \in m}
MarshalStringMap(m) == {<<kv[1], JStr(kv[2])>> : kv \in m}
MarshalIntMap(m) == {<<kv[1], JNum(kv[2])>> : kv \in m}

\* json.Marshal of a map[string]float32: NaN and the infinities are
\* unsupported values, Marshal returns (nil, err) and the setters drop err
MarshalFloatMap(m) ==
    IF \E kv \in m : ~IsFinite(kv[2]) THEN EmptyBody
    ELSE {<<kv[1], JNum(kv[2].v)>> : kv \in m}

\* json.Marshal of an ETA
MarshalETA(tripID, begin, end) ==
    {<<"trip_id", JStr(tripID)>>,
     <<"estimated_arrival_window_begin", JTime(begin)>>,
     <<"estimated_arrival_window_end", JTime(end)>>}

Keys(body) == {kv[1] : kv \in body}

----------------------------------------------------------------------------
(* Errors *)

NilError == [nil |-> TRUE, Error |-> "", Description |-> "", Status |-> "", StatusCode |-> 0]

APIError(kind, desc) ==
    [nil |-> FALSE, Error |-> kind, Description |-> desc, Status |-> "", StatusCode |-> 0]

generateAPIError(description) == APIError("api_error", description)

----------------------------------------------------------------------------
(* URLs *)

ThermostatPath(id) == "/devices/thermostats/" \o id \o "?auth=" \o Token
StructurePath(id) == "/structures/" \o id \o "?auth=" \o Token
ETAPath(id) == "/structures/" \o id \o "/eta.json?auth=" \o Token
StructuresPath == "/structures.json?auth=" \o Token

\* the URLs the client builds on an empty base: no scheme, no host
Hostless == {ThermostatPath(DeviceID), StructurePath(StructureID),
             ETAPath(StructureID), StructuresPath}

\* resp.Request.URL, the URL of the request the response answers
ReqURLs == {[Scheme |-> "https", Host |-> h] : h \in {"api.nest", "fb1.nest", "fb2.nest"}}
NoURL == [Scheme |-> "", Host |-> ""]

SchemeHost(u) == u.Scheme \o "://" \o u.Host

----------------------------------------------------------------------------
(* Requests and their outcomes *)

Request(method, url, body, ctype, accept) ==
    [method |-> method, url |-> url, body |-> body, ContentType |-> ctype, Accept |-> accept]

PutRequest(url, body) == Request("PUT", url, body, "application/json", "")

\* SetETA builds its request without a Content-Type header
ETARequest(url, body) == Request("PUT", url, body, "", "")

StatusText(code) ==
    CASE code = 200 -> "200 OK"
      [] code = 307 -> "307 Temporary Redirect"
      [] code = 400 -> "400 Bad Request"
      [] code = 401 -> "401 Unauthorized"
      [] OTHER -> ""

\* the "error" field of a response body ("" when the body has none)
ServerErrors == {"", "blocked"}

\* the structures a 200 body of the collection decodes to (Client not yet set):
\* a map[string]*Structure, in which a JSON null decodes to a nil pointer
StructureIDs == {"s1", "s2"}
Decoded(id) == [StructureID |-> id, Client |-> "nil", null |-> FALSE]
NilStructure(id) == [StructureID |-> id, Client |-> "nil", null |-> TRUE]
Payloads ==
    {{Decoded(id) : id \in ids} : ids \in SUBSET StructureIDs}
        \cup {{NilStructure("s1")}, {Decoded("s1"), NilStructure("s2")}}
NoStructures == [nil |-> TRUE, m |-> {}]

\* client.Do returned (resp, err) with err # nil; resp is nil unless hasResp
TransportError(text, hasResp, u) ==
    [ok |-> FALSE, errText |-> text, hasResp |-> hasResp, StatusCode |-> 0, Status |-> "",
     ReqURL |-> u, Error |-> "", readErr |-> FALSE, Data |-> {}]

\* client.Do returned (resp, nil)
Response(code, u, e, readErr, data) ==
    [ok |-> TRUE, errText |-> "", hasResp |-> TRUE, StatusCode |-> code, Status |-> StatusText(code),
     ReqURL |-> u, Error |-> e, readErr |-> readErr, Data |-> data]

PutStatusCodes == {200, 307, 400}
GetStatusCodes == {200, 401}

\* What the transport can answer to a PUT.  A URL without scheme and host is
\* never sent: client.Do fails with "unsupported protocol scheme".
PutOutcomes(req) ==
    IF req.url \in Hostless
    THEN {TransportError("unsupported protocol scheme", FALSE, NoURL)}
    ELSE {TransportError("connection refused", FALSE, NoURL)}
         \cup {Response(200, u, "", FALSE, {}) : u \in ReqURLs}
         \cup {Response(code, u, e, FALSE, {}) :
                 code \in PutStatusCodes \ {200}, u \in ReqURLs, e \in ServerErrors}

\* What the transport can answer to a GET of the collection.  With an error the
\* response is nil, except when following redirects was given up.
GetOutcomes(req) ==
    IF req.url \in Hostless
    THEN {TransportError("unsupported protocol scheme", FALSE, NoURL)}
    ELSE {TransportError("connection refused", FALSE, NoURL)}
         \cup {TransportError("stopped after 10 redirects", TRUE, u) : u \in ReqURLs}
         \cup {Response(code, u, "", TRUE, {}) : code \in GetStatusCodes, u \in ReqURLs}
         \cup {Response(200, u, "", FALSE, d) : u \in ReqURLs, d \in Payloads}
         \cup {Response(code, u, e, FALSE, {}) :
                 code \in GetStatusCodes \ {200}, u \in ReqURLs, e \in ServerErrors}

----------------------------------------------------------------------------
(* The locals of a call *)

NoArgs ==
    [setting |-> FALSE, mode |-> 0, tempC |-> F(0), tempF |-> 0,
     highC |-> F(0), lowC |-> F(0), highF |-> 0, lowF |-> 0,
     tripID |-> "", begin |-> 0, end |-> 0, now |-> 0]

NewCall(op, args, res, id) ==
    [op |-> op, args |-> args, res |-> res, id |-> id, body |-> EmptyBody,
     sent |-> <<>>, resps |-> <<>>, err |-> NilError, ret |-> NoStructures,
     cached0 |-> RedirectURL,
     attempt |-> 0, lines |-> <<>>, cbs |-> <<>>, errs |-> <<>>]

NoCall == [op |-> "none", args |-> NoArgs, res |-> "", id |-> "", body |-> EmptyBody,
           sent |-> <<>>, resps |-> <<>>, err |-> NilError, ret |-> NoStructures,
           cached0 |-> "",
           attempt |-> 0, lines |-> <<>>, cbs |-> <<>>, errs |-> <<>>]

Callable(p) == ~panicked /\ pc[p] \in {"idle", "done"}

\* the call returns err to its caller
Return(p, c, err) ==
    /\ call' = [call EXCEPT ![p] = [c EXCEPT !.err = err]]
    /\ pc' = [pc EXCEPT ![p] = "done"]
    /\ UNCHANGED <<RedirectURL, panicked>>

Init ==
    /\ RedirectURL = ""
    /\ pc = [p \in Procs |-> "idle"]
    /\ call = [p \in Procs |-> NoCall]
    /\ panicked = FALSE

----------------------------------------------------------------------------
(* Inputs *)

MinTempC == 9
MaxTempC == 32
MinTempF == 50
MaxTempF == 90

ModeCodes == 0..MaxMode
Times == 0..MaxTime
TempsC == {F(n) : n \in {MinTempC - 1, MinTempC, MaxTempC, MaxTempC + 1}} \cup {NaN, PosInf, NegInf}
TempsF == {MinTempF - 1, MinTempF, MaxTempF, MaxTempF + 1}
HighLowC == {F(n) : n \in 0..MaxDeg} \cup {NaN, PosInf}
HighLowF == 0..MaxDeg
TripIDs == {"trip1"}

----------------------------------------------------------------------------
(* The PUT-and-retry primitive: setThermostat and setStructure *)

HTTPError(text) == APIError("http_error", text)

\* PutResult with the response's status left off the error
PutResult_NoStatus(o) ==
    IF o.StatusCode = 200 THEN NilError ELSE generateAPIError(o.Error)

\* the result for a response that is not retried: nil on 200, else the
\* re-derived error with the response's status attached
PutResult(o) ==
    IF o.StatusCode = 200 THEN NilError
    ELSE [generateAPIError(o.Error) EXCEPT !.Status = o.Status, !.StatusCode = o.StatusCode]

\* the first PUT, to the URL built on the cached RedirectURL
FirstPut(p, c, path, body) ==
    /\ call' = [call EXCEPT ![p] =
                  [c EXCEPT !.body = body,
                            !.sent = <<PutRequest(RedirectURL \o path, body)>>]]
    /\ pc' = [pc EXCEPT ![p] = "put1"]
    /\ UNCHANGED <<RedirectURL, panicked>>

setThermostat(p, c, body) == FirstPut(p, c, ThermostatPath(c.id), body)
setStructure(p, c, body) == FirstPut(p, c, StructurePath(c.id), body)

\* PutResponse1 with the 307 branch not writing the client's RedirectURL
PutResponse1_NoCacheWrite(p) ==
    /\ ~panicked
    /\ pc[p] = "put1"
    /\ \E o \in PutOutcomes(call[p].sent[1]) :
         LET c == [call[p] EXCEPT !.resps = Append(@, o)] IN
         IF ~o.ok THEN Return(p, c, APIError("http_error", o.errText))
         ELSE IF o.StatusCode = 307
         THEN /\ call' = [call EXCEPT ![p] = c]
              /\ pc' = [pc EXCEPT ![p] = "redirected"]
              /\ UNCHANGED <<RedirectURL, panicked>>
         ELSE Return(p, c, PutResult(o))

\* PutResponse1 retrying after a transport error as after a 307
PutResponse1_RetryOnError(p) ==
    /\ ~panicked
    /\ pc[p] = "put1"
    /\ \E o \in PutOutcomes(call[p].sent[1]) :
         LET c == [call[p] EXCEPT !.resps = Append(@, o)] IN
         IF ~o.ok \/ o.StatusCode = 307
         THEN /\ RedirectURL' = IF o.ok THEN SchemeHost(o.ReqURL) ELSE RedirectURL
              /\ call' = [call EXCEPT ![p] = c]
              /\ pc' = [pc EXCEPT ![p] = "redirected"]
              /\ UNCHANGED panicked
         ELSE Return(p, c, PutResult(o))

\* the answer to the first PUT: a transport error and any status but 307 end
\* the call; a 307 writes the client's RedirectURL
PutResponse1(p) ==
    /\ ~panicked
    /\ pc[p] = "put1"
    /\ \E o \in PutOutcomes(call[p].sent[1]) :
         LET c == [call[p] EXCEPT !.resps = Append(@, o)] IN
         IF ~o.ok THEN Return(p, c, HTTPError(o.errText))
         ELSE IF o.StatusCode = 307
         THEN /\ RedirectURL' = SchemeHost(o.ReqURL)
              /\ call' = [call EXCEPT ![p] = c]
              /\ pc' = [pc EXCEPT ![p] = "redirected"]
              /\ UNCHANGED panicked
         ELSE Return(p, c, PutResult(o))

\* after a 307: the URL is rebuilt on the client's RedirectURL and the PUT reissued
PutRetry(p, path) ==
    /\ ~panicked
    /\ pc[p] = "redirected"
    /\ call' = [call EXCEPT ![p].sent =
                  Append(@, PutRequest(RedirectURL \o path, call[p].body))]
    /\ pc' = [pc EXCEPT ![p] = "put2"]
    /\ UNCHANGED <<RedirectURL, panicked>>

\* PutResponse2 following a second 307 like the first
PutResponse2_Recursive(p) ==
    /\ ~panicked
    /\ pc[p] = "put2"
    /\ \E o \in PutOutcomes(call[p].sent[Len(call[p].sent)]) :
         LET c == [call[p] EXCEPT !.resps = Append(@, o)] IN
         IF ~o.ok THEN Return(p, c, APIError("http_error", o.errText))
         ELSE IF o.StatusCode = 307
         THEN /\ RedirectURL' = SchemeHost(o.ReqURL)
              /\ call' = [call EXCEPT ![p] = c]
              /\ pc' = [pc EXCEPT ![p] = "redirected"]
              /\ UNCHANGED panicked
         ELSE Return(p, c, PutResult(o))

\* PutResponse2 reporting the status of the first response, not of the retried one
PutResponse2_FirstStatus(p) ==
    /\ ~panicked
    /\ pc[p] = "put2"
    /\ \E o \in PutOutcomes(call[p].sent[2]) :
         LET c == [call[p] EXCEPT !.resps = Append(@, o)] IN
         IF ~o.ok THEN Return(p, c, APIError("http_error", o.errText))
         ELSE Return(p, c, PutResult(call[p].resps[1]))

\* the answer to the retried PUT ends the call, whatever it is
PutResponse2(p) ==
    /\ ~panicked
    /\ pc[p] = "put2"
    /\ \E o \in PutOutcomes(call[p].sent[2]) :
         LET c == [call[p] EXCEPT !.resps = Append(@, o)] IN
         IF ~o.ok THEN Return(p, c, HTTPError(o.errText))
         ELSE Return(p, c, PutResult(o))

----------------------------------------------------------------------------
(* Thermostat setters *)

SetFanTimerActive(p) ==
    /\ Callable(p)
    /\ \E setting \in BOOLEAN :
         LET c == NewCall("SetFanTimerActive", [NoArgs EXCEPT !.setting = setting], "thermostat", DeviceID) IN
         setThermostat(p, c, MarshalBoolMap({<<"fan_timer_active", setting>>}))

\* HvacModeRequest with the default case falling through to "off"
HvacModeRequest_NoDefault(mode) ==
    CASE mode = Cool -> {<<"hvac_mode", "cool">>}
      [] mode = Heat -> {<<"hvac_mode", "heat">>}
      [] mode = HeatCool -> {<<"hvac_mode", "heat-cool">>}
      [] OTHER -> {<<"hvac_mode", "off">>}

\* the switch of SetHvacMode: the request map, empty in the default case
HvacModeRequest(mode) ==
    CASE mode = Cool -> {<<"hvac_mode", "cool">>}
      [] mode = Heat -> {<<"hvac_mode", "heat">>}
      [] mode = HeatCool -> {<<"hvac_mode", "heat-cool">>}
      [] mode = Off -> {<<"hvac_mode", "off">>}
      [] OTHER -> {}

SetHvacMode(p) ==
    /\ Callable(p)
    /\ \E mode \in ModeCodes :
         LET c == NewCall("SetHvacMode", [NoArgs EXCEPT !.mode = mode], "thermostat", DeviceID) IN
         IF HvacModeRequest(mode) = {}
         THEN Return(p, c, generateAPIError("Invalid HvacMode requested - must be cool, heat, heat-cool or off"))
         ELSE setThermostat(p, c, MarshalStringMap(HvacModeRequest(mode)))

\* temp < 9 || temp > 32
TempCOutOfRange(temp) == FloatLess(temp, F(MinTempC)) \/ FloatLess(F(MaxTempC), temp)

SetTargetTempC(p) ==
    /\ Callable(p)
    /\ \E temp \in TempsC :
         LET c == NewCall("SetTargetTempC", [NoArgs EXCEPT !.tempC = temp], "thermostat", DeviceID) IN
         IF TempCOutOfRange(temp)
         THEN Return(p, c, generateAPIError("Temperature must be between 9 and 32 Celcius"))
         ELSE setThermostat(p, c, MarshalFloatMap({<<"target_temperature_c", temp>>}))

\* temp < 50 || temp > 90
TempFOutOfRange(temp) == temp < MinTempF \/ temp > MaxTempF

SetTargetTempF(p) ==
    /\ Callable(p)
    /\ \E temp \in TempsF :
         LET c == NewCall("SetTargetTempF", [NoArgs EXCEPT !.tempF = temp], "thermostat", DeviceID) IN
         IF TempFOutOfRange(temp)
         THEN Return(p, c, generateAPIError("Temperature must be between 50 and 90 Farenheit"))
         ELSE setThermostat(p, c, MarshalIntMap({<<"target_temperature_f", temp>>}))

SetTargetTempHighLowC(p) ==
    /\ Callable(p)
    /\ \E high \in HighLowC, low \in HighLowC :
         LET c == NewCall("SetTargetTempHighLowC",
                          [NoArgs EXCEPT !.highC = high, !.lowC = low], "thermostat", DeviceID) IN
         IF FloatLess(high, low)
         THEN Return(p, c, generateAPIError("The high temperature must be greater than the low temperature"))
         ELSE setThermostat(p, c, MarshalFloatMap({<<"target_temperature_high_c", high>>,
                                                   <<"target_temperature_low_c", low>>}))

SetTargetTempHighLowF(p) ==
    /\ Callable(p)
    /\ \E high \in HighLowF, low \in HighLowF :
         LET c == NewCall("SetTargetTempHighLowF",
                          [NoArgs EXCEPT !.highF = high, !.lowF = low], "thermostat", DeviceID) IN
         IF high < low
         THEN Return(p, c, generateAPIError("The high temperature must be greater than the low temperature"))
         ELSE setThermostat(p, c, MarshalIntMap({<<"target_temperature_high_f", high>>,
                                                 <<"target_temperature_low_f", low>>}))

setThermostatResponse1(p) == call[p].res = "thermostat" /\ PutResponse1(p)
setThermostatRetry(p) == call[p].res = "thermostat" /\ PutRetry(p, ThermostatPath(call[p].id))
setThermostatResponse2(p) == call[p].res = "thermostat" /\ PutResponse2(p)

----------------------------------------------------------------------------
(* Structure setters *)

\* the switch of SetAway: the request map, empty in the default case
AwayRequest(mode) ==
    CASE mode = Home -> {<<"away", "home">>}
      [] mode = Away -> {<<"away", "away">>}
      [] mode = AutoAway -> {<<"away", "auto-away">>}
      [] OTHER -> {}

SetAway(p) ==
    /\ Callable(p)
    /\ \E mode \in ModeCodes :
         LET c == NewCall("SetAway", [NoArgs EXCEPT !.mode = mode], "structure", StructureID) IN
         IF AwayRequest(mode) = {}
         THEN Return(p, c, generateAPIError("Invalid Away requested - must be home, away or auto-away"))
         ELSE setStructure(p, c, MarshalStringMap(AwayRequest(mode)))

setStructureResponse1(p) == call[p].res = "structure" /\ PutResponse1(p)
setStructureRetry(p) == call[p].res = "structure" /\ PutRetry(p, StructurePath(call[p].id))
setStructureResponse2(p) == call[p].res = "structure" /\ PutResponse2(p)

----------------------------------------------------------------------------
(* SetETA *)

ETAError(desc) == APIError("eta_error", desc)

\* checkTimes, with now the value time.Now() returns inside it
checkTimes(now, begin, end) ==
    IF begin < now THEN ETAError("The begin time must be greater than the time now")
    ELSE IF end < begin THEN ETAError("The end time must be greater than the begin time")
    ELSE NilError

SetETA(p) ==
    /\ Callable(p)
    /\ \E tripID \in TripIDs, begin \in Times, end \in Times, now \in Times :
         LET c == NewCall("SetETA",
                          [NoArgs EXCEPT !.tripID = tripID, !.begin = begin, !.end = end, !.now = now],
                          "eta", StructureID)
             apiErr == checkTimes(now, begin, end)
             data == MarshalETA(tripID, begin, end)
         IN
         IF ~apiErr.nil THEN Return(p, c, apiErr)
         ELSE /\ call' = [call EXCEPT ![p] =
                           [c EXCEPT !.body = data,
                                     !.sent = <<ETARequest(RedirectURL \o ETAPath(c.id), data)>>]]
              /\ pc' = [pc EXCEPT ![p] = "eta"]
              /\ UNCHANGED <<RedirectURL, panicked>>

\* the answer to SetETA's PUT ends the call, whatever it is
SetETAResponse(p) ==
    /\ ~panicked
    /\ pc[p] = "eta"
    /\ \E o \in PutOutcomes(call[p].sent[1]) :
         LET c == [call[p] EXCEPT !.resps = Append(@, o)] IN
         IF ~o.ok THEN Return(p, c, HTTPError(o.errText))
         ELSE Return(p, c, PutResult(o))

----------------------------------------------------------------------------
(* Structures *)

\* getStructures up to client.Do: the request it builds
getStructuresRequest(action) ==
    IF RedirectURL = ""
    THEN Request("GET", APIURL \o StructuresPath, EmptyBody, "", "")
    ELSE Request("GET", RedirectURL \o StructuresPath, EmptyBody, "",
                 IF action = Stream THEN "text/event-stream" ELSE "")

\* a decoded map handed on as it is
associateClientToStructures_Skip(structures) == structures

\* a getStructures that caches the answering host only when the GET failed
getStructuresRedirectURL_NotOnSuccess(cached0, o) ==
    IF cached0 = "" /\ ~(o.ok /\ o.StatusCode = 200) THEN SchemeHost(o.ReqURL) ELSE RedirectURL

\* getStructures after client.Do returned a response: RedirectURL as it leaves
\* it.  Only the branch taken without a cached RedirectURL writes it.
getStructuresRedirectURL(cached0, o) ==
    IF cached0 = "" THEN SchemeHost(o.ReqURL) ELSE RedirectURL

\* associateClientToStructures writes value.Client for every value of the map
associateClientToStructures(structures) ==
    {[st EXCEPT !.Client = "client"] : st \in structures}

\* value.Client = c on a nil *Structure is a nil dereference
HasNilStructure(structures) == \E st \in structures : st.null

Structures(p) ==
    /\ Callable(p)
    /\ call' = [call EXCEPT ![p] =
                  [NewCall("Structures", NoArgs, "structures", "") EXCEPT
                      !.sent = <<getStructuresRequest(NoStream)>>]]
    /\ pc' = [pc EXCEPT ![p] = "get"]
    /\ UNCHANGED <<RedirectURL, panicked>>

\* Structures after getStructures returned (resp, err)
StructuresResult(o) ==
    IF ~o.ok THEN [err |-> APIError("devices_error", o.errText), ret |-> NoStructures]
    ELSE IF o.readErr THEN [err |-> APIError("body_read_error", "unexpected EOF"), ret |-> NoStructures]
    ELSE IF o.StatusCode # 200 THEN [err |-> APIError(o.Error, ""), ret |-> NoStructures]
    ELSE [err |-> NilError, ret |-> [nil |-> FALSE, m |-> associateClientToStructures(o.Data)]]

\* the answer to the GET.  Without a cached RedirectURL getStructures reads
\* resp.Request.URL before it looks at err: a nil resp is a nil dereference.
\* So is a nil *Structure in the decoded map, in associateClientToStructures.
StructuresResponse(p) ==
    /\ ~panicked
    /\ pc[p] = "get"
    /\ \E o \in GetOutcomes(call[p].sent[1]) :
         LET c == [call[p] EXCEPT !.resps = Append(@, o)]
             r == StructuresResult(o)
         IN
         IF call[p].cached0 = "" /\ ~o.hasResp
         THEN /\ panicked' = TRUE
              /\ call' = [call EXCEPT ![p] = c]
              /\ pc' = [pc EXCEPT ![p] = "panic"]
              /\ UNCHANGED RedirectURL
         ELSE IF o.ok /\ ~o.readErr /\ o.StatusCode = 200 /\ HasNilStructure(o.Data)
         THEN /\ panicked' = TRUE
              /\ RedirectURL' = getStructuresRedirectURL(call[p].cached0, o)
              /\ call' = [call EXCEPT ![p] = c]
              /\ pc' = [pc EXCEPT ![p] = "panic"]
         ELSE /\ RedirectURL' = getStructuresRedirectURL(call[p].cached0, o)
              /\ call' = [call EXCEPT ![p] = [c EXCEPT !.err = r.err, !.ret = r.ret]]
              /\ pc' = [pc EXCEPT ![p] = "done"]
              /\ UNCHANGED panicked

----------------------------------------------------------------------------
(* StructuresStream: the event-stream reader *)

\* What the transport can answer to the GET that opens the stream
StreamOutcomes(req) ==
    IF req.url \in Hostless
    THEN {TransportError("unsupported protocol scheme", FALSE, NoURL)}
    ELSE {TransportError("connection refused", FALSE, NoURL)}
         \cup {TransportError("stopped after 10 redirects", TRUE, u) : u \in ReqURLs}
         \cup {Response(200, u, "", FALSE, {}) : u \in ReqURLs}

\* a line of the stream, as ReadString hands it over: its first six characters
\* and what follows them, without the newline
Line(prefix, rest) == [prefix |-> prefix, rest |-> rest]
EventJSON == "{\"path\":\"/\",\"data\":{\"s1\":{\"away\":\"home\"}}}"
NullEntryJSON == "{\"path\":\"/\",\"data\":{\"s1\":null}}"
EmptyMapJSON == "{\"path\":\"/\",\"data\":{}}"
NullDataJSON == "{\"path\":\"/\",\"data\":null}"
GarbageJSON == "{\"path\":"
StreamLines ==
    {Line("event:", " put"), Line("data: ", "")}
        \cup {Line("data: ", j) :
                j \in {EventJSON, NullEntryJSON, EmptyMapJSON, NullDataJSON, GarbageJSON}}

\* parseStreamData: the text after the "data: " marker, "" for any other line
parseStreamData(line) == IF line.prefix = "data: " THEN line.rest ELSE ""

\* json.Unmarshal into a fresh StructuresEvent, then its Data field; the error
\* of Unmarshal is dropped and Data stays nil on malformed or null data
UnmarshalData(value) ==
    CASE value = EventJSON -> [nil |-> FALSE, m |-> {Decoded("s1")}]
      [] value = NullEntryJSON -> [nil |-> FALSE, m |-> {NilStructure("s1")}]
      [] value = EmptyMapJSON -> [nil |-> FALSE, m |-> {}]
      [] OTHER -> NoStructures

\* one invocation of the callback
Callback(structures, err) == [structures |-> structures, err |-> err]

\* setRedirectURL leaves a cached RedirectURL alone; without one it asks the
\* API and caches where the answer came from, or fails and caches nothing.
\* StructuresStream drops its result.
setRedirectURLResults ==
    IF RedirectURL # "" THEN {RedirectURL}
    ELSE {""} \cup {SchemeHost(u) : u \in ReqURLs}

StructuresStream(p) ==
    /\ Callable(p)
    /\ \E url \in setRedirectURLResults : RedirectURL' = url
    /\ call' = [call EXCEPT ![p] = NewCall("StructuresStream", NoArgs, "stream", "")]
    /\ pc' = [pc EXCEPT ![p] = "loop"]
    /\ UNCHANGED panicked

\* one round of StructuresStream's for loop: streamStructures up to client.Do
streamStructures(p) ==
    /\ ~panicked
    /\ pc[p] = "loop"
    /\ call[p].attempt < MaxAttempts
    /\ call' = [call EXCEPT ![p] =
                  [@ EXCEPT !.attempt = @ + 1,
                            !.sent = <<getStructuresRequest(Stream)>>,
                            !.resps = <<>>,
                            !.cached0 = RedirectURL,
                            !.lines = <<>>,
                            !.cbs = <<>>]]
    /\ pc' = [pc EXCEPT ![p] = "connect"]
    /\ UNCHANGED <<RedirectURL, panicked>>

\* an error branch that reports the failure of the first attempt only
streamStructuresError_FirstOnly(c, o) ==
    IF c.attempt = 1
    THEN [c EXCEPT !.errs = Append(@, [attempt |-> c.attempt,
                                       cb |-> Callback(NoStructures, o.errText)])]
    ELSE c

\* streamStructures' error branch: callback(nil, err), logged with the number
\* of the attempt that failed
streamStructuresError(c, o) ==
    [c EXCEPT !.errs = Append(@, [attempt |-> c.attempt,
                                  cb |-> Callback(NoStructures, o.errText)])]

\* getStructures(Stream) returns (resp, err) to streamStructures: an error goes
\* to the callback and the round ends, a response is handed to the watch loop
streamStructuresResponse(p) ==
    /\ ~panicked
    /\ pc[p] = "connect"
    /\ \E o \in StreamOutcomes(call[p].sent[1]) :
         LET c == [call[p] EXCEPT !.resps = <<o>>] IN
         IF call[p].cached0 = "" /\ ~o.hasResp
         THEN /\ panicked' = TRUE
              /\ call' = [call EXCEPT ![p] = c]
              /\ pc' = [pc EXCEPT ![p] = "panic"]
              /\ UNCHANGED RedirectURL
         ELSE /\ RedirectURL' = getStructuresRedirectURL(call[p].cached0, o)
              /\ IF ~o.ok
                 THEN /\ call' = [call EXCEPT ![p] = streamStructuresError(c, o)]
                      /\ pc' = [pc EXCEPT ![p] = "loop"]
                 ELSE /\ call' = [call EXCEPT ![p] = c]
                      /\ pc' = [pc EXCEPT ![p] = "watch"]
              /\ UNCHANGED panicked

\* watchStructuresStream: ReadString returned a line
watchReadLine(p) ==
    /\ ~panicked
    /\ pc[p] = "watch"
    /\ Len(call[p].lines) < MaxLines
    /\ \E line \in StreamLines :
         LET c == [call[p] EXCEPT !.lines = Append(@, line)]
             value == parseStreamData(line)
             data == UnmarshalData(value)
         IN
         IF value # "" /\ ~data.nil
         THEN IF HasNilStructure(data.m)
              THEN /\ panicked' = TRUE
                   /\ call' = [call EXCEPT ![p] = c]
                   /\ pc' = [pc EXCEPT ![p] = "panic"]
              ELSE /\ call' = [call EXCEPT ![p] =
                                 [c EXCEPT !.cbs = Append(@,
                                    Callback([nil |-> FALSE,
                                              m |-> associateClientToStructures(data.m)], ""))]]
                   /\ UNCHANGED <<pc, panicked>>
         ELSE /\ call' = [call EXCEPT ![p] = c]
              /\ UNCHANGED <<pc, panicked>>
    /\ UNCHANGED RedirectURL

\* a watch loop that hands its read error to the callback
watchReadError_Report(p) ==
    /\ ~panicked
    /\ pc[p] = "watch"
    /\ call' = [call EXCEPT ![p] =
                  [@ EXCEPT !.errs = Append(@, [attempt |-> call[p].attempt,
                                                cb |-> Callback(NoStructures, "EOF")])]]
    /\ pc' = [pc EXCEPT ![p] = "loop"]
    /\ UNCHANGED <<RedirectURL, panicked>>

\* watchStructuresStream: ReadString returned an error (the end of the stream
\* included); the watch loop returns and so does streamStructures
watchReadError(p) ==
    /\ ~panicked
    /\ pc[p] = "watch"
    /\ pc' = [pc EXCEPT ![p] = "loop"]
    /\ UNCHANGED <<RedirectURL, call, panicked>>

\* the last answer a call received
LastResp(c) == c.resps[Len(c.resps)]

----------------------------------------------------------------------------
(* The specification: one caller, one call at a time *)

Step(p) ==
    \/ SetFanTimerActive(p)
    \/ SetHvacMode(p)
    \/ SetTargetTempC(p)
    \/ SetTargetTempF(p)
    \/ SetTargetTempHighLowC(p)
    \/ SetTargetTempHighLowF(p)
    \/ setThermostatResponse1(p)
    \/ setThermostatRetry(p)
    \/ setThermostatResponse2(p)
    \/ SetAway(p)
    \/ setStructureResponse1(p)
    \/ setStructureRetry(p)
    \/ setStructureResponse2(p)
    \/ SetETA(p)
    \/ SetETAResponse(p)
    \/ Structures(p)
    \/ StructuresResponse(p)
    \/ StructuresStream(p)
    \/ streamStructures(p)
    \/ streamStructuresResponse(p)
    \/ watchReadLine(p)
    \/ watchReadError(p)

Next == \E p \in SeqProcs : Step(p)

Spec == Init /\ [][Next]_vars

----------------------------------------------------------------------------
(* Concurrent setters on one client.  Nothing in the code orders the write of
   c.RedirectURL after a 307 (part_000:133, structure.go:208) and the read of
   it for the retried URL (part_000:134, structure.go:209) of two goroutines.
   The hosts of ReqURLs are of equal length, so a torn read of the string
   header still yields one of the values written. *)

\* a client that has fetched its structures from the API host
InitConc ==
    /\ RedirectURL = SchemeHost([Scheme |-> "https", Host |-> "api.nest"])
    /\ pc = [p \in Procs |-> "idle"]
    /\ call = [p \in Procs |-> NoCall]
    /\ panicked = FALSE

\* each caller makes one call, on a thermostat or on a structure, and the
\* server answers first PUTs with a plain 307
FirstAnswer307(p) ==
    /\ LastResp(call'[p]).ok
    /\ LastResp(call'[p]).StatusCode = 307
    /\ LastResp(call'[p]).Error = ""

StepConc(p) ==
    \/ pc[p] = "idle" /\ SetFanTimerActive(p)
    \/ pc[p] = "idle" /\ SetAway(p) /\ pc'[p] = "put1"
    \/ setThermostatResponse1(p) /\ FirstAnswer307(p)
    \/ setThermostatRetry(p)
    \/ setThermostatResponse2(p)
    \/ setStructureResponse1(p) /\ FirstAnswer307(p)
    \/ setStructureRetry(p)
    \/ setStructureResponse2(p)

NextConc == \E p \in Procs : StepConc(p)

SpecConc == InitConc /\ [][NextConc]_vars

----------------------------------------------------------------------------
(* The claims *)

\* a call of a setter that goes through setThermostat or setStructure
IsPutRetryCall(c) == c.res \in {"thermostat", "structure"}

\* a call of any setter, SetETA included
IsSetterCall(c) == c.res \in {"thermostat", "structure", "eta"}

\* the path a call's requests go to
RequestPath(c) ==
    CASE c.res = "thermostat" -> "/devices/thermostats/" \o c.id \o "?auth=" \o Token
      [] c.res = "structure" -> "/structures/" \o c.id \o "?auth=" \o Token
      [] c.res = "eta" -> "/structures/" \o c.id \o "/eta.json?auth=" \o Token
      [] OTHER -> "/structures.json?auth=" \o Token

\* C1: a setter that goes through the PUT-and-retry primitive issues at most
\* two requests, all PUTs; the second only after the first was answered 307;
\* and once the second is answered, by whatever, the call is over.
C1_AtMostOneRetry ==
    \A p \in Procs :
        IsPutRetryCall(call[p]) =>
            /\ Len(call[p].sent) <= 2
            /\ \A i \in 1..Len(call[p].sent) : call[p].sent[i].method = "PUT"
            /\ Len(call[p].sent) = 2 =>
                   /\ Len(call[p].resps) >= 1
                   /\ call[p].resps[1].ok
                   /\ call[p].resps[1].StatusCode = 307
            /\ Len(call[p].resps) = 2 => pc[p] = "done"

\* a call whose retried PUT was itself answered 307 has returned after two requests
C1_Witness ==
    \E p \in Procs :
        /\ IsPutRetryCall(call[p])
        /\ pc[p] = "done"
        /\ Len(call[p].sent) = 2
        /\ Len(call[p].resps) = 2
        /\ call[p].resps[2].ok
        /\ call[p].resps[2].StatusCode = 307

\* a setter has returned after a 307 and then a 200
RedirectDone(p) ==
    /\ IsPutRetryCall(call[p])
    /\ pc[p] = "done"
    /\ Len(call[p].resps) = 2
    /\ call[p].resps[1].StatusCode = 307
    /\ call[p].resps[2].ok
    /\ call[p].resps[2].StatusCode = 200

\* C2: after a 307 and then a 200 the setter returns nil, the retried PUT went
\* to, and the client's RedirectURL is, the scheme and host of the 307
\* response's request URL; and the next request through the client, whatever
\* the resource, is sent to that base.
C2_RedirectIdempotence ==
    [][\A p \in Procs :
        /\ RedirectDone(p)' =>
              /\ call'[p].err.nil
              /\ RedirectURL' = call'[p].resps[1].ReqURL.Scheme \o "://" \o call'[p].resps[1].ReqURL.Host
              /\ call'[p].sent[2].url = RedirectURL' \o RequestPath(call'[p])
        /\ (RedirectDone(p) /\ pc'[p] \in {"put1", "eta", "get"}) =>
              call'[p].sent[1].url =
                  call[p].resps[1].ReqURL.Scheme \o "://" \o call[p].resps[1].ReqURL.Host
                      \o RequestPath(call'[p])
      ]_vars

\* a 307-then-200 call that moved the client off the base it started with
C2_Witness ==
    \E p \in Procs :
        /\ RedirectDone(p)
        /\ call[p].cached0 # ""
        /\ RedirectURL # call[p].cached0

\* C3: SetETA returns eta_error without a request whenever begin <= now or
\* end <= begin, and attempts a PUT to the ETA endpoint only when begin is
\* strictly after now and end strictly after begin.
C3_ETAValidation ==
    \A p \in Procs :
        call[p].op = "SetETA" =>
            LET a == call[p].args IN
            /\ (a.begin <= a.now \/ a.end <= a.begin) =>
                   /\ pc[p] = "done"
                   /\ ~call[p].err.nil
                   /\ call[p].err.Error = "eta_error"
                   /\ call[p].sent = <<>>
            /\ (a.begin > a.now /\ a.end > a.begin) =>
                   /\ Len(call[p].sent) = 1
                   /\ call[p].sent[1].method = "PUT"

\* C4, as claimed: a setter that returns api_error issued no request.
C4_ApiErrorOnlyLocal ==
    \A p \in Procs :
        (IsSetterCall(call[p]) /\ pc[p] = "done" /\ ~call[p].err.nil
            /\ call[p].err.Error = "api_error")
        => call[p].sent = <<>>

\* C4, amended: a setter that returns api_error either issued no request, and
\* then the error carries no HTTP status, or got a final response whose status
\* is not 200, and then the error carries that response's status line and code.
C4_ApiErrorLocalOrStatus ==
    \A p \in Procs :
        (IsSetterCall(call[p]) /\ pc[p] = "done" /\ ~call[p].err.nil
            /\ call[p].err.Error = "api_error")
        => \/ /\ call[p].sent = <<>>
              /\ call[p].err.StatusCode = 0
              /\ call[p].err.Status = ""
           \/ /\ Len(call[p].resps) = Len(call[p].sent)
              /\ Len(call[p].resps) >= 1
              /\ LastResp(call[p]).ok
              /\ LastResp(call[p]).StatusCode # 200
              /\ call[p].err.StatusCode = LastResp(call[p]).StatusCode
              /\ call[p].err.Status = LastResp(call[p]).Status
              /\ call[p].err.StatusCode # 0

\* a setter returned api_error for a request the server answered 400
C4_Witness ==
    \E p \in Procs :
        /\ IsSetterCall(call[p])
        /\ pc[p] = "done"
        /\ call[p].err.Error = "api_error"
        /\ Len(call[p].sent) = 1
        /\ call[p].err.StatusCode = 400

\* C5: SetHvacMode with a mode outside {Cool, Heat, HeatCool, Off}, and SetAway
\* with a mode outside {Home, Away, AutoAway}, returns api_error, sends nothing
\* and leaves the client's RedirectURL as it was; with a mode inside the set a
\* PUT is attempted whose body maps the code to its string.
C5_ModeSettersFailFast ==
    \A p \in Procs :
        LET c == call[p]
            mode == c.args.mode
            rejected == /\ pc[p] = "done"
                        /\ ~c.err.nil
                        /\ c.err.Error = "api_error"
                        /\ c.sent = <<>>
                        /\ RedirectURL = c.cached0
            sentBody(key, str) == /\ Len(c.sent) >= 1
                                  /\ c.sent[1].method = "PUT"
                                  /\ c.sent[1].body = {<<key, [t |-> "string", s |-> str, n |-> 0]>>}
        IN
        /\ c.op = "SetHvacMode" =>
              /\ mode \notin {Cool, Heat, HeatCool, Off} => rejected
              /\ mode = Cool => sentBody("hvac_mode", "cool")
              /\ mode = Heat => sentBody("hvac_mode", "heat")
              /\ mode = HeatCool => sentBody("hvac_mode", "heat-cool")
              /\ mode = Off => sentBody("hvac_mode", "off")
        /\ c.op = "SetAway" =>
              /\ mode \notin {Home, Away, AutoAway} => rejected
              /\ mode = Home => sentBody("away", "home")
              /\ mode = Away => sentBody("away", "away")
              /\ mode = AutoAway => sentBody("away", "auto-away")

\* SetHvacMode was called with a structure's mode code on a client that has a
\* RedirectURL cached, and was rejected
C5_Witness ==
    \E p \in Procs :
        /\ call[p].op = "SetHvacMode"
        /\ call[p].args.mode = Away
        /\ pc[p] = "done"
        /\ call[p].err.Error = "api_error"
        /\ call[p].cached0 # ""

\* 9 <= t <= 32 for a float32 t: no NaN, no infinity
InRangeC(t) == t.k = "num" /\ MinTempC <= t.v /\ t.v <= MaxTempC

\* C6: SetTargetTempC(t) attempts a PUT iff 9 <= t <= 32, SetTargetTempF(t) iff
\* 50 <= t <= 90; for every other t the setter returns api_error and sends nothing.
C6_TargetTempRange ==
    \A p \in Procs :
        LET c == call[p]
            rejected == /\ pc[p] = "done"
                        /\ ~c.err.nil
                        /\ c.err.Error = "api_error"
                        /\ c.sent = <<>>
        IN
        /\ c.op = "SetTargetTempC" =>
              /\ InRangeC(c.args.tempC) <=> Len(c.sent) >= 1
              /\ ~InRangeC(c.args.tempC) => rejected
        /\ c.op = "SetTargetTempF" =>
              /\ (MinTempF <= c.args.tempF /\ c.args.tempF <= MaxTempF) <=> Len(c.sent) >= 1
              /\ ~(MinTempF <= c.args.tempF /\ c.args.tempF <= MaxTempF) => rejected

\* high >= low for float32 operands: neither is a NaN and high is not below low
GreaterEqualC(high, low) == high.k # "nan" /\ low.k # "nan" /\ ~FloatLess(high, low)

\* C7: the high/low setters return api_error and send nothing when high < low;
\* when high >= low a PUT is attempted whose body carries the high and the low
\* key of the unit.
C7_HighLow ==
    \A p \in Procs :
        LET c == call[p]
            rejected == /\ pc[p] = "done"
                        /\ ~c.err.nil
                        /\ c.err.Error = "api_error"
                        /\ c.sent = <<>>
            sentKeys(keys) == /\ Len(c.sent) >= 1
                              /\ c.sent[1].method = "PUT"
                              /\ Keys(c.sent[1].body) = keys
        IN
        /\ c.op = "SetTargetTempHighLowC" =>
              /\ FloatLess(c.args.highC, c.args.lowC) => rejected
              /\ GreaterEqualC(c.args.highC, c.args.lowC) =>
                     sentKeys({"target_temperature_high_c", "target_temperature_low_c"})
        /\ c.op = "SetTargetTempHighLowF" =>
              /\ c.args.highF < c.args.lowF => rejected
              /\ c.args.highF >= c.args.lowF =>
                     sentKeys({"target_temperature_high_f", "target_temperature_low_f"})

\* C8: the first PUT of a setter goes to the cached RedirectURL when there is
\* one and to the client's APIURL when there is none.
C8_TargetURL ==
    \A p \in Procs :
        (IsPutRetryCall(call[p]) /\ pc[p] = "put1") =>
            call[p].sent[1].url =
                (IF RedirectURL # "" THEN RedirectURL ELSE APIURL) \o RequestPath(call[p])

\* C9: when the first PUT of a setter fails in the transport the setter returns
\* http_error with the transport's error text after that one request, and
\* RedirectURL is as it was; a setter changes RedirectURL only when its first
\* response has status 307.
C9_TransportFailure ==
    \A p \in Procs :
        LET c == call[p] IN
        /\ (IsPutRetryCall(c) /\ Len(c.resps) >= 1 /\ ~c.resps[1].ok) =>
              /\ pc[p] = "done"
              /\ ~c.err.nil
              /\ c.err.Error = "http_error"
              /\ c.err.Description = c.resps[1].errText
              /\ Len(c.sent) = 1
              /\ RedirectURL = c.cached0
        /\ (IsSetterCall(c) /\ RedirectURL # c.cached0) =>
              /\ Len(c.resps) >= 1
              /\ c.resps[1].ok
              /\ c.resps[1].StatusCode = 307

\* the first PUT of a setter, sent to a real host, failed in the transport
C9_Witness ==
    \E p \in Procs :
        /\ IsPutRetryCall(call[p])
        /\ pc[p] = "done"
        /\ Len(call[p].resps) = 1
        /\ ~call[p].resps[1].ok
        /\ call[p].resps[1].errText = "connection refused"
        /\ call[p].err.Error = "http_error"

\* C10: the final response of a setter is the first one unless that was a 307,
\* and then the retried one; a final status other than 200 is returned as an
\* error carrying that response's status code and line, a final 200 as nil.
C10_FinalStatus ==
    \A p \in Procs :
        LET c == call[p] IN
        (IsPutRetryCall(c) /\ pc[p] = "done" /\ Len(c.resps) >= 1 /\ LastResp(c).ok) =>
            /\ Len(c.resps) = (IF c.resps[1].StatusCode = 307 THEN 2 ELSE 1)
            /\ LastResp(c).StatusCode # 200 =>
                   /\ ~c.err.nil
                   /\ c.err.StatusCode = LastResp(c).StatusCode
                   /\ c.err.Status = LastResp(c).Status
            /\ LastResp(c).StatusCode = 200 => c.err.nil

\* a retried PUT answered 400 after a 307: the error carries 400, not 307
C10_Witness ==
    \E p \in Procs :
        /\ IsPutRetryCall(call[p])
        /\ pc[p] = "done"
        /\ Len(call[p].resps) = 2
        /\ call[p].resps[2].ok
        /\ call[p].resps[2].StatusCode = 400
        /\ call[p].err.StatusCode = 400

\* C11: whenever the GET of Structures() fails in the transport, whatever the
\* client's RedirectURL, Structures() returns a nil map and an error of kind
\* devices_error carrying the transport's error text; it does not fault.
C11_StructuresTransportFailure ==
    \A p \in Procs :
        LET c == call[p] IN
        (c.op = "Structures" /\ Len(c.resps) >= 1 /\ ~c.resps[1].ok) =>
            /\ pc[p] = "done"
            /\ ~panicked
            /\ ~c.err.nil
            /\ c.err.Error = "devices_error"
            /\ c.err.Description = c.resps[1].errText
            /\ c.ret.nil

\* C18: a 307 answer to SetETA's PUT updates the client's RedirectURL to the
\* scheme and host of the response's request URL and is followed by exactly
\* one retried PUT to the ETA endpoint.
C18_ETARedirect ==
    \A p \in Procs :
        LET c == call[p] IN
        (c.op = "SetETA" /\ pc[p] = "done" /\ Len(c.resps) >= 1
            /\ c.resps[1].ok /\ c.resps[1].StatusCode = 307) =>
            /\ RedirectURL = c.resps[1].ReqURL.Scheme \o "://" \o c.resps[1].ReqURL.Host
            /\ Len(c.sent) = 2
            /\ c.sent[2].method = "PUT"
            /\ c.sent[2].url = RedirectURL \o "/structures/" \o c.id \o "/eta.json?auth=" \o Token

\* the callback invocations a sequence of lines of one connection calls for:
\* one per data line whose payload decodes to a non-nil mapping, in order
RECURSIVE Deliveries(_)
Deliveries(lines) ==
    IF lines = <<>> THEN <<>>
    ELSE LET front == Deliveries(SubSeq(lines, 1, Len(lines) - 1))
             line == lines[Len(lines)]
             data == IF line.prefix = "data: " THEN UnmarshalData(line.rest) ELSE NoStructures
         IN IF data.nil THEN front
            ELSE Append(front, Callback([nil |-> FALSE,
                                         m |-> {[st EXCEPT !.Client = "client"] : st \in data.m}], ""))

\* C12: for the lines read so far from one stream connection, the callback has
\* been invoked with a nil error exactly once per data line whose payload
\* decodes to a non-nil structures mapping, in the order of the lines and with
\* that line's mapping; other lines cause no invocation.
C12_StreamDelivery ==
    \A p \in Procs :
        call[p].op = "StructuresStream" => call[p].cbs = Deliveries(call[p].lines)

\* C13: every Structure of a mapping that a successful Structures() returned,
\* or that the stream callback was invoked with, has its Client field set to
\* the client.
C13_BackReference ==
    \A p \in Procs :
        LET c == call[p] IN
        /\ (c.op = "Structures" /\ pc[p] = "done" /\ c.err.nil) =>
               /\ ~c.ret.nil
               /\ \A st \in c.ret.m : st.Client = "client"
        /\ \A i \in 1..Len(c.cbs) :
               \A st \in c.cbs[i].structures.m : st.Client = "client"

C13_Witness ==
    \E p \in Procs :
        /\ call[p].op = "StructuresStream"
        /\ Len(call[p].cbs) >= 1
        /\ \E st \in call[p].cbs[1].structures.m : st.Client = "client"

\* C14: a read error (or the end of the stream) on an open connection ends the
\* watch loop with no callback invocation, the only thing the reader does next
\* is to open a new connection with a GET of the collection, and a running
\* StructuresStream never returns to its caller.
C14_NeverTerminates ==
    [][\A p \in Procs :
        LET c == call[p]
            d == call'[p]
        IN
        /\ (pc[p] = "watch" /\ pc'[p] = "loop") =>
               /\ RedirectURL' # ""
               /\ d.cbs = c.cbs
               /\ d.errs = c.errs
        /\ (pc[p] = "loop" /\ pc'[p] # "loop") =>
               /\ pc'[p] = "connect"
               /\ d.attempt = c.attempt + 1
               /\ Len(d.sent) = 1
               /\ d.sent[1].method = "GET"
               /\ d.sent[1].url = (IF RedirectURL = "" THEN APIURL ELSE RedirectURL)
                                      \o "/structures.json?auth=" \o Token
        /\ c.op = "StructuresStream" =>
               /\ d.op = "StructuresStream"
               /\ pc'[p] \in {"loop", "connect", "watch", "panic"}
      ]_vars

\* a connection was opened again after a read error ended the first one
C14_Witness ==
    \E p \in Procs :
        /\ call[p].op = "StructuresStream"
        /\ pc[p] = "connect"
        /\ call[p].attempt >= 2
        /\ call[p].errs = <<>>

Sends(p) == pc'[p] # pc[p] /\ pc'[p] \in {"put1", "put2", "eta", "get", "connect"}

\* a step of p in which the GET of Structures() or of a stream connection is
\* answered with a response
GetAnswered(p) ==
    /\ pc[p] \in {"get", "connect"}
    /\ pc'[p] # pc[p]
    /\ LastResp(call'[p]).hasResp

\* C16: when the GET of Structures() or of a stream connection, sent with no
\* RedirectURL cached, is answered, RedirectURL becomes the scheme and host of
\* the response's request URL, on success too; sent with a RedirectURL cached,
\* the GET leaves it unchanged; every request sent while a RedirectURL is cached
\* goes to it; and a cached RedirectURL is replaced only by a setter's 307.
C16_GetPrimesRedirectURL ==
    [][\A p \in Procs :
        LET c == call[p]
            d == call'[p]
        IN
        /\ (GetAnswered(p) /\ c.cached0 = "") =>
              RedirectURL' = LastResp(d).ReqURL.Scheme \o "://" \o LastResp(d).ReqURL.Host
        /\ (pc[p] \in {"get", "connect"} /\ pc'[p] # pc[p] /\ c.cached0 # "") =>
              RedirectURL' = RedirectURL
        /\ (Sends(p) /\ RedirectURL # "") =>
              /\ RedirectURL' = RedirectURL
              /\ d.sent[Len(d.sent)].url = RedirectURL \o RequestPath(d)
        /\ (RedirectURL # "" /\ RedirectURL' # RedirectURL) =>
              \E q \in Procs : pc[q] = "put1" /\ pc'[q] = "redirected"
      ]_vars

\* a successful Structures() call on a fresh client cached a host other than
\* the API's
C16_Witness ==
    \E p \in Procs :
        /\ call[p].op = "Structures"
        /\ pc[p] = "done"
        /\ call[p].err.nil
        /\ call[p].cached0 = ""
        /\ call[p].resps[1].StatusCode = 200
        /\ RedirectURL = "https://fb1.nest"

\* C17: every GET sent by the event-stream reader, whatever RedirectURL is when
\* it is built, carries Accept: text/event-stream, and no GET sent by
\* Structures() carries it.
C17_AcceptHeader ==
    \A p \in Procs :
        LET c == call[p] IN
        /\ c.op = "StructuresStream" =>
              \A i \in 1..Len(c.sent) :
                  c.sent[i].method = "GET" /\ c.sent[i].Accept = "text/event-stream"
        /\ c.op = "Structures" =>
              \A i \in 1..Len(c.sent) :
                  c.sent[i].method = "GET" /\ c.sent[i].Accept = ""

\* C19: with setters running concurrently on one client, each answered 307 on
\* its first PUT, the retried PUT of every call goes to the scheme and host of
\* the request URL of that call's own 307 response.
C19_RetryToOwnBase ==
    \A p \in Procs :
        LET c == call[p] IN
        (IsPutRetryCall(c) /\ Len(c.sent) = 2) =>
            c.sent[2].url =
                c.resps[1].ReqURL.Scheme \o "://" \o c.resps[1].ReqURL.Host \o RequestPath(c)


============================================================================
